---------------------------- MODULE Spec2Model ----------------------------
(***************************************************************************)
(* dlextract: RemoteStream (src/dlextract/FileIO.py), an HTTP Range-backed *)
(* read-only stream, and get_extractor (src/dlextract/ArchiveEngine.py),   *)
(* which opens a stream, probes its first bytes and constructs an engine,   *)
(* and extract_to_disk of the engine classes (ArchiveEngine.py,            *)
(* ZipArchive.py, SevenZipArchive.py, RarArchive.py).                      *)
(*                                                                         *)
(* A bytes value is represented by the resource bytes it holds: the record *)
(* [src, len] stands for resource[src : src+len].  Two such values are the *)
(* same bytes for every resource exactly when the records are equal, so    *)
(* the byte-level constants of the program keep their real values.         *)
(***************************************************************************)
EXTENDS Integers, Sequences, FiniteSets, TLC

\* ------------------------------------------------------------- constants
MiB == 1024 * 1024

MIN_FETCH_SIZE == 25 * 1024 * 1024
LARGE_REQUEST_THRESHOLD == 10 * 1024 * 1024
DEFAULT_FETCH_SIZE == 100 * 1024 * 1024
\* the literal 2 * 1024 * 1024 of _prefetch_metadata
METADATA_FETCH_SIZE == 2 * 1024 * 1024
\* for attempt in range(5)
MAX_ATTEMPTS == 5
\* response.headers.get("Retry-After", 3)
DEFAULT_RETRY_AFTER == 3

SEEK_SET == 0
SEEK_CUR == 1
SEEK_END == 2

\* SIGNATURES of ArchiveEngine.py, in the order of the dict: the signature
\* (its byte values) and the mode it maps to
SIGNATURES ==
    << [sig |-> <<80, 75, 3, 4>>, mode |-> "zip"],
       [sig |-> <<80, 75, 5, 6>>, mode |-> "zip"],
       [sig |-> <<80, 75, 7, 8>>, mode |-> "zip"],
       [sig |-> <<117, 115, 116, 97, 114, 0, 48, 48>>, mode |-> "tar"],
       [sig |-> <<117, 115, 116, 97, 114, 32, 32, 0>>, mode |-> "tar"],
       [sig |-> <<31, 139>>, mode |-> "tar"],
       [sig |-> <<253, 55, 122, 88, 90, 0>>, mode |-> "tar"],
       [sig |-> <<66, 90, 104>>, mode |-> "tar"],
       [sig |-> <<40, 181, 47, 253>>, mode |-> "tar"],
       [sig |-> <<55, 122, 188, 175, 39, 28>>, mode |-> "7z"],
       [sig |-> <<82, 97, 114, 33, 26, 7, 0>>, mode |-> "rar"],
       [sig |-> <<82, 97, 114, 33, 26, 7, 1, 0>>, mode |-> "rar"] >>
\* stream.read(8)
PROBE_LENGTH == 8
\* chunk_size = 128 * 1024 of the copy loops of extract_to_disk
CHUNK_SIZE == 128 * 1024

\* ---------------------------------------------------------------- bounds
\* seek/tell/read calls made on one stream
MaxOps == 2
\* nested read calls the interpreter allows before RecursionError
RecursionLimit == 2
\* extract_to_disk calls made on one engine
MaxCalls == 2

\* ------------------------------------------------------- model inputs
\* None in an integer-valued field, and an absent header
None == 0 - 1
NoHeader == "absent"
\* the streams opened: whether the server honours Range headers ("ranges")
\* or always sends the whole body ("no_ranges"), the length of the remote
\* resource, and the buffer_size argument of the constructor
Streams == {<<"ranges", 1 * MiB, DEFAULT_FETCH_SIZE>>,
            <<"ranges", 130 * MiB, DEFAULT_FETCH_SIZE>>,
            <<"ranges", 130 * MiB, 4 * MiB>>,
            <<"no_ranges", 130 * MiB, DEFAULT_FETCH_SIZE>>}
\* (offset, whence) arguments of seek
SeekArgs ==
    {<<0, SEEK_SET>>, <<3 * MiB, SEEK_SET>>, <<0 - 5, SEEK_SET>>,
     <<8, SEEK_CUR>>, <<0 - 8, SEEK_END>>, <<5, SEEK_END>>, <<0, 3>>}
\* size arguments of read
ReadSizes == {0 - 1, 0, 8, 30 * MiB}
\* a longer session of short reads: one call more, of header-sized reads
\* after seeks to the start and to the end
ShortSessionOps == MaxOps + 1
ShortSeekArgs == {<<0, SEEK_SET>>, <<0 - 5, SEEK_SET>>, <<0 - 8, SEEK_END>>}
ShortReadSizes == {8}
\* reads around the large-request threshold, from the start of the resource
\* and from two offsets inside it
WindowSeekArgs == {<<3 * MiB, SEEK_SET>>, <<0 - 12 * MiB, SEEK_END>>}
WindowReadSizes == {LARGE_REQUEST_THRESHOLD - 1, LARGE_REQUEST_THRESHOLD,
                    LARGE_REQUEST_THRESHOLD + 1}
\* Retry-After header values of a 429 response
RetryAfterValues == {NoHeader, "0", "2", "Wed, 21 Oct 2026 07:28:00 GMT"}

\* the first bytes of the resources get_extractor is called on
ZipMagic == <<80, 75, 3, 4, 20, 0, 0, 0>>
Magics ==
    {ZipMagic,
     <<80, 75, 5, 6, 0, 0, 0, 0>>,
     <<31, 139, 8, 0, 0, 0, 0, 0>>,
     <<55, 122, 188, 175, 39, 28, 0, 4>>,
     <<82, 97, 114, 33, 26, 7, 0, 207>>,
     <<222, 173, 190, 239, 0, 0, 0, 0>>}
\* the resources get_extractor is called on: how the server treats Range
\* headers, the length of the resource and its first bytes
Dispatches ==
    {<<"ranges", 1 * MiB, m>> : m \in Magics}
    \cup {<<"no_ranges", 130 * MiB, m>> : m \in {ZipMagic}}
    \cup {<<"ranges", 4, <<80, 75, 3, 4>> >>}
\* password arguments, as code points: None, "", "p\u00e9"
PwNone == <<0 - 1>>
Passwords == {PwNone, << >>, <<112, 233>>}

\* the engine classes of the package; the first is the class of
\* ArchiveEngine.py, which get_extractor constructs
EngineClasses == {"ZipArchiveEngine", "ZipArchive.ZipArchiveEngine",
                  "SevenZipArchiveEngine", "RarArchiveEngine"}
\* the members of the archive an engine is constructed on: name, length of
\* the content, whether it is encrypted, whether its stored data are damaged
Members ==
    {[name |-> "empty.txt", len |-> 0, encrypted |-> FALSE, damaged |-> FALSE],
     [name |-> "data.bin", len |-> 300 * 1024, encrypted |-> FALSE,
      damaged |-> FALSE],
     [name |-> "secret.bin", len |-> 130 * 1024, encrypted |-> TRUE,
      damaged |-> FALSE],
     [name |-> "broken.bin", len |-> 64 * 1024, encrypted |-> FALSE,
      damaged |-> TRUE]}
\* the password the encrypted member was written with: "p\u00e9" in UTF-8
ArchivePassword == <<112, 195, 169>>
\* password arguments of the engine constructors: None, "p\u00e9", "x"
EnginePasswords == {PwNone, <<112, 233>>, <<120>>}
\* target_path arguments
Targets == {"out/a", "out/b"}
\* lengths of the blocks py7zr hands to the writer
SevenZipBlocks == {64 * 1024, CHUNK_SIZE, 1 * MiB}

\* ------------------------------------------------------------- bytes
Min(a, b) == IF a <= b THEN a ELSE b
Max(a, b) == IF a >= b THEN a ELSE b

\* resource[src : src+len]; every empty value is the same b""
Bytes(src, len) == IF len <= 0 THEN [src |-> 0, len |-> 0]
                   ELSE [src |-> src, len |-> len]
EmptyBytes == Bytes(0, 0)

\* Python data[a:b] for 0 <= a
Slice(data, a, b) ==
    LET stop == Min(b, data.len)
    IN  Bytes(data.src + a, stop - a)

\* bytes.startswith(prefix)
StartsWith(bytes, prefix) ==
    Len(prefix) <= Len(bytes) /\ SubSeq(bytes, 1, Len(prefix)) = prefix

\* bytes.hex().upper()
HexDigits == <<"0", "1", "2", "3", "4", "5", "6", "7", "8", "9",
               "A", "B", "C", "D", "E", "F">>
RECURSIVE HexUpper(_)
HexUpper(bytes) ==
    IF bytes = << >> THEN ""
    ELSE HexDigits[(Head(bytes) \div 16) + 1] \o HexDigits[(Head(bytes) % 16) + 1]
         \o HexUpper(Tail(bytes))

\* str.encode("utf-8") for code points below 0x800
RECURSIVE Utf8(_)
Utf8(text) ==
    IF text = << >> THEN << >>
    ELSE (IF Head(text) < 128 THEN <<Head(text)>>
          ELSE <<192 + (Head(text) \div 64), 128 + (Head(text) % 64)>>)
         \o Utf8(Tail(text))

\* int(text) of a header value: a decimal string parses to its value,
\* anything else raises ValueError
IsDecimal(text) == text \in {"0", "1", "2", "3"}
ParseInt(text) ==
    CASE text = "0" -> 0
      [] text = "1" -> 1
      [] text = "2" -> 2
      [] text = "3" -> 3


\* ------------------------------------------------------------- state
VARIABLES
    server,           \* environment: how the server treats Range headers
    resLen,           \* environment: length of the remote resource
    buffer_size,      \* self.buffer_size
    pos,              \* self.pos
    _size,            \* self._size
    _buffer,          \* self._buffer
    _buffer_start,    \* self._buffer_start
    _metadata_cache,  \* self._metadata_cache, entries in insertion order
    pc,               \* "probe", "prefetch", "idle", "fetch", "failed"
    req_size,         \* read/_fetch: the (clamped) size argument
    fetch_size,       \* _fetch: fetch_size
    attempt,          \* _fetch: the loop variable
    depth,            \* nested read frames on the stack
    op,               \* observer: the current or last call and its outcome
    log,              \* observer: the current _fetch: its Range header and
                      \*   the 429 answers and transient failures it has met
    slept,            \* observer: time.sleep after the latest response (0: none)
    resp,             \* observer: the latest answer to a request of _fetch:
                      \*   or of _prefetch_metadata: status (0: none came),
                      \*   body length, Retry-After
    ops,              \* observer: calls made on the stream
    magic,            \* environment: the first bytes of the remote resource
    password,         \* get_extractor: the password argument
    gx,               \* get_extractor and its caller: "off" (the stream is
                      \*   used directly), "open", "read8", "reading", "scan",
                      \*   "construct", "returned", "extracting", "raised"
                      \*   also the constructor of TarArchiveEngine
                      \*   ("tar_new", "tar_read8", "tar_reading",
                      \*   "tar_scan") and a stream held by several
                      \*   consumers ("shared")
    disp,             \* get_extractor: magic_bytes, the matched mode, the
                      \*   engine constructed and what its constructor
                      \*   received, the exception that reached the caller
    closes,           \* observer: calls of self.client.close()
    probe,            \* observer: the answer to the probe of __init__
    engine,           \* an engine constructed by its caller: its class,
                      \*   self.password, the state of the decoder of py7zr
    xcall,            \* the current or last call of extract_to_disk: its
                      \*   arguments, where it stands in the copy, whether
                      \*   it has opened its target, the bytes
                      \*   read from the member, the chunk read and not yet
                      \*   written, the chunks written, how it ended
    disk,             \* environment: the file at each target path
    progress,         \* observer: the arguments the progress callback got
                      \*   during the current or last call
    consumers         \* the consumers that share the stream: where each
                      \*   stands in its seek(o); read(n), whether another
                      \*   consumer called the stream in between, and what
                      \*   its read gave it

vars == <<server, resLen, buffer_size, pos, _size, _buffer, _buffer_start,
          _metadata_cache, pc, req_size, fetch_size, attempt, depth, op, log,
          slept, resp, ops, magic, password, gx, disp, closes, probe,
          engine, xcall, disk, progress, consumers>>

\* the variables of get_extractor and its caller
dispatch_vars == <<magic, password, gx, disp, closes>>
\* the variables of an engine and its extract_to_disk, and of the consumers
\* of a shared stream
extract_vars == <<engine, xcall, disk, progress, consumers>>

\* the size property: self._size or 0
size == IF _size = None THEN 0 ELSE _size

\* ------------------------------------------------------------- server
\* a transport failure (connect error, timeout) carries no status
TransportError == [status |-> 0, content |-> EmptyBytes, retry_after |-> NoHeader]
StatusResponse(st) == [status |-> st, content |-> EmptyBytes, retry_after |-> NoHeader]
BodyResponse(st, body) == [status |-> st, content |-> body, retry_after |-> NoHeader]
\* observers: no answer yet, no request yet
NoResponse == [status |-> None, len |-> 0, retry_after |-> NoHeader]
NoLog == [lo |-> 0, hi |-> 0 - 1, nreq |-> 0, n429 |-> 0, nerr |-> 0]

\* what the server sends when it serves the request "Range: bytes=lo-hi"
Served(lo, hi) ==
    IF server = "no_ranges" THEN {BodyResponse(200, Bytes(0, resLen))}
    ELSE IF lo >= 0 /\ hi >= lo
         THEN IF lo < resLen
              THEN {BodyResponse(206, Bytes(lo, Min(hi, resLen - 1) - lo + 1))}
              ELSE {StatusResponse(416)}
         \* an invalid ranges-specifier may be ignored or rejected
         ELSE {BodyResponse(200, Bytes(0, resLen)), StatusResponse(416)}

\* the answers a GET with "Range: bytes=lo-hi" can get
Answers(lo, hi) ==
    Served(lo, hi)
    \cup {TransportError, StatusResponse(503), BodyResponse(200, EmptyBytes)}
    \cup {[status |-> 429, content |-> EmptyBytes, retry_after |-> ra] :
              ra \in RetryAfterValues}

\* the total of "Content-Range: bytes 0-0/*"
UnknownTotal == 0 - 2
\* no probe answer yet
NoProbe == [status |-> None, content_range |-> None, content_length |-> None]

\* the answers the probe "Range: bytes=0-0" can get: status (0: a transport
\* failure), the total of Content-Range and the value of Content-Length
\* (None: header absent)
ProbeAnswers ==
    (IF server = "ranges"
     THEN IF resLen > 0
          THEN {[status |-> 206, content_range |-> resLen, content_length |-> 1],
                [status |-> 206, content_range |-> UnknownTotal,
                 content_length |-> 1]}
          ELSE {[status |-> 416, content_range |-> None, content_length |-> 0]}
     ELSE {[status |-> 200, content_range |-> None, content_length |-> resLen],
           [status |-> 200, content_range |-> None, content_length |-> None]})
    \cup {[status |-> st, content_range |-> None, content_length |-> None] :
             st \in {0, 404, 503}}

\* response.raise_for_status() raises
IsErrorStatus(st) == st < 200 \/ st >= 300

\* ------------------------------------------------------- construction
\* observer: the record of a call: its name and arguments, whether it is
\* running, returned or raised (exc), the bytes (ret) or integer (result)
\* returned, what served a read, the calls of _fetch it made and how many
\* of them returned without storing a buffer, and the clamped read size
NoOp(name) ==
    [name |-> name, arg |-> <<0, 0>>, status |-> "running", exc |-> "",
     ret |-> EmptyBytes, result |-> None, served |-> "", nfetch |-> 0,
     unpopulated |-> 0, pos0 |-> 0, size |-> 0,
     buf0 |-> [start |-> 0, len |-> 0]]

\* get_extractor has not reached its scan
NoDispatch ==
    [scanned |-> FALSE, magic_bytes |-> << >>, mode |-> "", engine |-> "",
     engine_pos |-> None, engine_pw |-> PwNone, exc |-> "", msg |-> "",
     call |-> ""]

\* no engine constructed by the caller, no call of extract_to_disk, no file
NoEngine == [cls |-> "", password |-> PwNone, decoder |-> ""]
NoMember == [name |-> "", len |-> 0, encrypted |-> FALSE, damaged |-> FALSE]
NoError == [type |-> "", text |-> ""]
NoCall ==
    [n |-> 0, member |-> NoMember, target |-> "", cb |-> FALSE,
     status |-> "none", exc |-> NoError, phase |-> "", source |-> "",
     opened |-> FALSE, read |-> 0, pending |-> 0, writes |-> << >>]
NoFile == [exists |-> FALSE, member |-> "", len |-> 0, sound |-> TRUE]
NoDisk == [t \in Targets |-> NoFile]
\* the stream has one user, which the calls themselves describe
ConsumerIds == {1, 2}
NoConsumer ==
    [phase |-> "absent", o |-> 0, n |-> 0, disturbed |-> FALSE,
     status |-> "", exc |-> "", got |-> EmptyBytes]
NoConsumers == [c \in ConsumerIds |-> NoConsumer]

\* a stream constructed by its user, or get_extractor(url, password) called
Init ==
    /\ \/ /\ gx = "off"
          /\ \E st \in Streams :
                server = st[1] /\ resLen = st[2] /\ buffer_size = st[3]
          /\ magic = ZipMagic
          /\ password = PwNone
       \/ /\ gx = "open"
          /\ \E d \in Dispatches :
                server = d[1] /\ resLen = d[2] /\ magic = d[3]
          /\ buffer_size = DEFAULT_FETCH_SIZE
          /\ password \in Passwords
    /\ disp = NoDispatch
    /\ closes = 0
    /\ probe = NoProbe
    /\ engine = NoEngine
    /\ xcall = NoCall
    /\ disk = NoDisk
    /\ progress = << >>
    /\ consumers = NoConsumers
    /\ pos = 0
    /\ _size = None
    /\ _buffer = EmptyBytes
    /\ _buffer_start = 0
    /\ _metadata_cache = << >>
    /\ pc = "probe"
    /\ req_size = 0
    /\ fetch_size = 0
    /\ attempt = 0
    /\ depth = 0
    /\ op = NoOp("__init__")
    /\ log = NoLog
    /\ slept = 0
    /\ resp = NoResponse
    /\ ops = 0

\* faulty variant of ProbedSize: Content-Length is looked at first
ProbedSize_LengthFirst(r) ==
    IF r.content_length # None THEN r.content_length
    ELSE IF r.content_range # None THEN r.content_range ELSE 0

\* the size the probe response yields
ProbedSize(r) ==
    IF r.content_range # None THEN r.content_range
    ELSE IF r.content_length # None THEN r.content_length ELSE 0

\* faulty variant of ProbeAccepted: only server errors are refused
ProbeAccepted_Below500(st) == st < 500

\* the probe's status is one __init__ goes on with
ProbeAccepted(st) == st \in {200, 206}

\* __init__ up to the probe: the request fails, the status is refused, the
\* total of Content-Range is not a number, or the size is set
Probe ==
    /\ pc = "probe"
    /\ \E r \in ProbeAnswers :
        /\ probe' = r
        /\ IF r.status = 0
           THEN /\ pc' = "failed"
                /\ op' = [op EXCEPT !.status = "raised", !.exc = "HTTPError"]
                /\ UNCHANGED _size
           ELSE IF ~ProbeAccepted(r.status)
           THEN /\ pc' = "failed"
                /\ op' = [op EXCEPT !.status = "raised", !.exc = "ConnectionError"]
                /\ UNCHANGED _size
           ELSE IF r.content_range = UnknownTotal
           THEN /\ pc' = "failed"
                /\ op' = [op EXCEPT !.status = "raised", !.exc = "ValueError"]
                /\ UNCHANGED _size
           ELSE /\ _size' = ProbedSize(r)
                /\ pc' = "prefetch"
                /\ op' = op
    /\ UNCHANGED <<server, resLen, buffer_size, pos, _buffer, _buffer_start,
                   _metadata_cache, req_size, fetch_size, attempt, depth, log,
                   slept, resp, ops>>
    /\ UNCHANGED dispatch_vars
    /\ UNCHANGED extract_vars

\* the Range header of the prefetch of `label`
PrefetchRange(label) ==
    LET initial_fetch_size == Min(METADATA_FETCH_SIZE, size)
        final_fetch_size == Min(METADATA_FETCH_SIZE, size)
        final_fetch_start == size - final_fetch_size
    IN  IF label = "initial" THEN <<0, initial_fetch_size - 1>>
        ELSE <<final_fetch_start, size - 1>>

\* faulty variant of PrefetchEntry: raise_for_status is not called, so
\* the body of an error answer is recorded like any other
PrefetchEntry_NoRaiseForStatus(label, r) ==
    IF r.status = 0
    THEN [label |-> label, data |-> EmptyBytes, start |-> 0, end |-> 0 - 1]
    ELSE LET actual_start == PrefetchRange(label)[1]
         IN  [label |-> label, data |-> r.content, start |-> actual_start,
              end |-> actual_start + r.content.len - 1]

\* the entry one iteration of _prefetch_metadata records
PrefetchEntry(label, r) ==
    IF r.status = 0 \/ IsErrorStatus(r.status)
    THEN [label |-> label, data |-> EmptyBytes, start |-> 0, end |-> 0 - 1]
    ELSE LET actual_start == PrefetchRange(label)[1]
         IN  [label |-> label, data |-> r.content, start |-> actual_start,
              end |-> actual_start + r.content.len - 1]

\* faulty variant of PrefetchDone: the loop ends after the head region
PrefetchDone_AfterInitial(label) == label = "initial"

\* the loop over [("initial", ...), ("final", ...)] has made its last iteration
PrefetchDone(label) == label = "final"

\* one iteration of the loop of _prefetch_metadata
PrefetchMetadata ==
    /\ pc = "prefetch"
    /\ LET label == IF Len(_metadata_cache) = 0 THEN "initial" ELSE "final"
           rng == PrefetchRange(label)
       IN  \E r \in Answers(rng[1], rng[2]) :
             /\ _metadata_cache' = Append(_metadata_cache, PrefetchEntry(label, r))
             /\ pc' = IF PrefetchDone(label) THEN "idle" ELSE "prefetch"
             /\ op' = [op EXCEPT
                         !.status = IF PrefetchDone(label) THEN "returned" ELSE @]
             /\ resp' = [status |-> r.status, len |-> r.content.len,
                         retry_after |-> r.retry_after]
    /\ UNCHANGED <<server, resLen, buffer_size, pos, _size, _buffer,
                   _buffer_start, req_size, fetch_size, attempt, depth, log,
                   slept, ops>>
    /\ UNCHANGED dispatch_vars
    /\ UNCHANGED extract_vars
    /\ UNCHANGED probe

\* ------------------------------------------------------- seek and tell
\* observer: a call starts at position pos0 with the buffer region buf0
NewOp(name, arg) ==
    [NoOp(name) EXCEPT !.arg = arg, !.pos0 = pos,
                       !.buf0 = [start |-> _buffer_start, len |-> _buffer.len]]

\* faulty variant of SeekTarget: SEEK_END measured from the position, not the size
SeekTarget_EndFromPos(p, sz, offset, whence) ==
    IF whence = SEEK_SET THEN offset
    ELSE IF whence = SEEK_CUR THEN p + offset
    ELSE IF whence = SEEK_END THEN p + offset
    ELSE p

\* the position seek(offset, whence) sets from position p and size sz
SeekTarget(p, sz, offset, whence) ==
    IF whence = SEEK_SET THEN offset
    ELSE IF whence = SEEK_CUR THEN p + offset
    ELSE IF whence = SEEK_END THEN sz + offset
    ELSE p

\* a call of seek with arguments among args, the limit-th call at most
SeekCall(args, limit) ==
    /\ pc = "idle"
    /\ gx = "off"
    /\ ops < limit
    /\ \E a \in args :
        /\ pos' = SeekTarget(pos, size, a[1], a[2])
        /\ op' = [NewOp("seek", a) EXCEPT !.status = "returned", !.result = pos']
    /\ ops' = ops + 1
    /\ log' = NoLog
    /\ slept' = 0
    /\ resp' = NoResponse
    /\ UNCHANGED <<server, resLen, buffer_size, _size, _buffer, _buffer_start,
                   _metadata_cache, pc, req_size, fetch_size, attempt, depth>>
    /\ UNCHANGED dispatch_vars
    /\ UNCHANGED extract_vars
    /\ UNCHANGED probe

Seek == SeekCall(SeekArgs, MaxOps)

Tell ==
    /\ pc = "idle"
    /\ gx = "off"
    /\ ops < MaxOps
    /\ op' = [NewOp("tell", <<0, 0>>) EXCEPT !.status = "returned", !.result = pos]
    /\ ops' = ops + 1
    /\ log' = NoLog
    /\ slept' = 0
    /\ resp' = NoResponse
    /\ UNCHANGED <<server, resLen, buffer_size, pos, _size, _buffer,
                   _buffer_start, _metadata_cache, pc, req_size, fetch_size,
                   attempt, depth>>
    /\ UNCHANGED dispatch_vars
    /\ UNCHANGED extract_vars
    /\ UNCHANGED probe

\* ---------------------------------------------------------------- read
\* faulty variant of ClampSize: only size == -1 is clamped to EOF
ClampSize_MinusOneOnly(n, p, sz) == IF n = 0 - 1 THEN sz - p ELSE n

\* read: the size after "normalize request size to available bytes"
ClampSize(n, p, sz) == IF n = 0 - 1 \/ p + n > sz THEN sz - p ELSE n

\* faulty variant of IsInCacheRange: only the start of the request is tested
IsInCacheRange_StartOnly(cache, p, n) ==
    cache.start <= p /\ p < cache.end + 1

\* _is_in_cache_range(cache, size) at position p
IsInCacheRange(cache, p, n) ==
    (cache.start <= p /\ p < cache.end + 1) /\ (p + n - 1 <= cache.end)

\* read: the metadata entry is used (in range, and available > 0)
CacheServes(cache, p, n) ==
    IsInCacheRange(cache, p, n) /\ cache.data.len - (p - cache.start) > 0

\* faulty variant of CacheData: the bytes are taken from the start of the
\* entry
CacheData_FromEntryStart(cache, p, n) ==
    Slice(cache.data, 0, Min(n, cache.data.len))

\* read: the bytes taken from a metadata entry
CacheData(cache, p, n) ==
    LET offset == p - cache.start
        available == cache.data.len - offset
        chunk == Min(n, available)
    IN  Slice(cache.data, offset, offset + chunk)

\* read: the fast path of the buffer applies
InBuffer(buf, bstart, p, n) ==
    LET buf_end == bstart + buf.len
    IN  (bstart <= p /\ p < buf_end) /\ (p + n <= buf_end)

\* read: the bytes taken from the buffer
BufferData(buf, bstart, p, n) ==
    LET offset == p - bstart IN Slice(buf, offset, offset + n)

\* read up to the call of _fetch, with buffer (buf, bstart): how the request
\* is served, the bytes returned and the new position
ReadLocal(n, p, buf, bstart) ==
    LET sz == ClampSize(n, p, size)
        hits == {i \in 1..Len(_metadata_cache) :
                     CacheServes(_metadata_cache[i], p, sz)}
        first == CHOOSE i \in hits : \A j \in hits : i <= j
    IN  IF sz <= 0
        THEN [how |-> "eof", size |-> sz, data |-> EmptyBytes, pos |-> p]
        ELSE IF hits # {}
        THEN LET data == CacheData(_metadata_cache[first], p, sz)
             IN  [how |-> _metadata_cache[first].label, size |-> sz,
                  data |-> data, pos |-> p + data.len]
        ELSE IF InBuffer(buf, bstart, p, sz)
        THEN [how |-> "buffer", size |-> sz,
              data |-> BufferData(buf, bstart, p, sz), pos |-> p + sz]
        ELSE [how |-> "miss", size |-> sz, data |-> EmptyBytes, pos |-> p]

\* _fetch: fetch_size for a request of n bytes
FetchSize(n, bsz, sz, p) ==
    LET wanted == IF n <= LARGE_REQUEST_THRESHOLD THEN Max(n, MIN_FETCH_SIZE)
                  ELSE bsz
    IN  Min(wanted, sz - p)

\* _fetch: the Range header, bytes=lo-hi
FetchRange(p, fsize) == <<p, p + fsize - 1>>

\* a call read(n) at nesting depth d with buffer (buf, bstart), up to its
\* return or to the first request of the _fetch it calls
EnterRead(n, d, buf, bstart, o) ==
    LET r == ReadLocal(n, pos, buf, bstart)
    IN  IF d > RecursionLimit
        THEN /\ op' = [o EXCEPT !.status = "raised", !.exc = "RecursionError"]
             /\ pc' = "idle"
             /\ depth' = 0
             /\ req_size' = 0 /\ fetch_size' = 0 /\ attempt' = 0
             /\ UNCHANGED pos
        ELSE IF r.how # "miss"
        THEN /\ op' = [o EXCEPT !.status = "returned", !.ret = r.data,
                                !.served = r.how, !.size = r.size]
             /\ pos' = r.pos
             /\ pc' = "idle"
             /\ depth' = 0
             /\ req_size' = 0 /\ fetch_size' = 0 /\ attempt' = 0
        ELSE /\ op' = [o EXCEPT !.nfetch = @ + 1, !.size = r.size]
             /\ req_size' = r.size
             /\ fetch_size' = FetchSize(r.size, buffer_size, size, pos)
             /\ attempt' = 0
             /\ pc' = "fetch"
             /\ depth' = d
             /\ UNCHANGED pos

\* a call of read with a size among sizes, the limit-th call at most
ReadCall(sizes, limit) ==
    /\ pc = "idle"
    /\ gx = "off"
    /\ ops < limit
    /\ \E n \in sizes :
        EnterRead(n, 1, _buffer, _buffer_start, NewOp("read", <<n, 0>>))
    /\ ops' = ops + 1
    /\ log' = NoLog
    /\ slept' = 0
    /\ resp' = NoResponse
    /\ UNCHANGED <<server, resLen, buffer_size, _size, _buffer, _buffer_start,
                   _metadata_cache>>
    /\ UNCHANGED dispatch_vars
    /\ UNCHANGED extract_vars
    /\ UNCHANGED probe

Read == ReadCall(ReadSizes, MaxOps)

\* -------------------------------------------------------------- _fetch
\* _fetch: the sleep a 429 response with Retry-After value ra asks for
RetryWait(ra) ==
    LET wait_time == IF ra = NoHeader THEN DEFAULT_RETRY_AFTER ELSE ParseInt(ra)
    IN  Max(wait_time, 1)

\* _fetch: the backoff after a failed attempt
Backoff(att) == (att + 1) * 2

\* faulty variant of IsEmptyAnomaly: the empty body is stored like any other
IsEmptyAnomaly_Unchecked(content, fsize) == FALSE

\* _fetch: "if not response.content and fetch_size > 0"
IsEmptyAnomaly(content, fsize) == content.len = 0 /\ fsize > 0

\* an exception leaves _fetch and read
RaiseFromFetch(o, exc) ==
    /\ op' = [o EXCEPT !.status = "raised", !.exc = exc]
    /\ pc' = "idle"
    /\ depth' = 0
    /\ req_size' = 0 /\ fetch_size' = 0 /\ attempt' = 0
    /\ UNCHANGED pos

\* _fetch returned with buffer (buf, bstart): read calls read(size) again
FetchReturns(o, buf, bstart) == EnterRead(req_size, depth + 1, buf, bstart, o)

\* the loop goes to its next iteration, or ends when there is none
NextAttempt(o) ==
    IF attempt + 1 < MAX_ATTEMPTS
    THEN /\ attempt' = attempt + 1
         /\ op' = o
         /\ UNCHANGED <<pos, pc, depth, req_size, fetch_size>>
    ELSE FetchReturns([o EXCEPT !.unpopulated = @ + 1], _buffer, _buffer_start)

\* one iteration of the retry loop of _fetch: the request and what the
\* answer leads to, up to the next request or to the end of read
FetchAttempt ==
    /\ pc = "fetch"
    /\ LET rng == FetchRange(pos, fetch_size)
           o == op
       IN  \E r \in Answers(rng[1], rng[2]) :
            LET kind == IF r.status = 429 THEN "r429"
                        ELSE IF r.status = 0 \/ IsErrorStatus(r.status) THEN "error"
                        ELSE IF IsEmptyAnomaly(r.content, fetch_size) THEN "empty"
                        ELSE "ok"
            IN
            /\ resp' = [status |-> r.status, len |-> r.content.len,
                         retry_after |-> r.retry_after]
            /\ CASE kind = "r429" ->
                     IF r.retry_after # NoHeader /\ ~IsDecimal(r.retry_after)
                     THEN /\ RaiseFromFetch(o, "ValueError")
                          /\ slept' = 0
                          /\ UNCHANGED <<_buffer, _buffer_start>>
                     ELSE /\ slept' = RetryWait(r.retry_after)
                          /\ NextAttempt(o)
                          /\ UNCHANGED <<_buffer, _buffer_start>>
                 [] kind = "error" ->
                     IF attempt = MAX_ATTEMPTS - 1
                     THEN /\ RaiseFromFetch(o, "HTTPError")
                          /\ slept' = 0
                          /\ UNCHANGED <<_buffer, _buffer_start>>
                     ELSE /\ slept' = Backoff(attempt)
                          /\ NextAttempt(o)
                          /\ UNCHANGED <<_buffer, _buffer_start>>
                 [] kind = "empty" ->
                     /\ RaiseFromFetch(o, "EOFError")
                     /\ slept' = 0
                     /\ UNCHANGED <<_buffer, _buffer_start>>
                 [] kind = "ok" ->
                     /\ _buffer' = r.content
                     /\ _buffer_start' = pos
                     /\ slept' = 0
                     /\ FetchReturns(o, r.content, pos)
            \* the first request of a _fetch starts a new log
            /\ LET old == IF attempt = 0 THEN NoLog ELSE log
               IN  log' = [lo |-> rng[1], hi |-> rng[2], nreq |-> old.nreq + 1,
                           n429 |-> old.n429 + (IF kind = "r429" THEN 1 ELSE 0),
                           nerr |-> old.nerr + (IF kind = "error" THEN 1 ELSE 0)]
    /\ UNCHANGED <<server, resLen, buffer_size, _size, _metadata_cache, ops>>
    /\ UNCHANGED dispatch_vars
    /\ UNCHANGED extract_vars
    /\ UNCHANGED probe

\* ------------------------------------------------------- get_extractor
\* the byte values of resource[src : src+len], known for the first bytes
Content(data) ==
    SubSeq(magic, data.src + 1, Min(data.src + data.len, Len(magic)))

\* the stream part of a step of get_extractor that makes no call on it
StreamUnchanged ==
    UNCHANGED <<server, resLen, buffer_size, pos, _size, _buffer,
                _buffer_start, _metadata_cache, pc, req_size, fetch_size,
                attempt, depth, op, log, slept, resp, ops>>

\* stream = RemoteStream(url) has returned: stream.seek(0)
GxSeek ==
    /\ gx = "open"
    /\ pc = "idle"
    /\ pos' = SeekTarget(pos, size, 0, SEEK_SET)
    /\ op' = [NewOp("seek", <<0, SEEK_SET>>) EXCEPT
                 !.status = "returned", !.result = pos']
    /\ ops' = ops + 1
    /\ gx' = "read8"
    /\ UNCHANGED <<server, resLen, buffer_size, _size, _buffer, _buffer_start,
                   _metadata_cache, pc, req_size, fetch_size, attempt, depth,
                   log, slept, resp>>
    /\ UNCHANGED <<magic, password, disp, closes, probe>>
    /\ UNCHANGED extract_vars

\* stream.read(8), up to its return or to the first request of its _fetch
GxRead ==
    /\ gx = "read8"
    /\ pc = "idle"
    /\ EnterRead(PROBE_LENGTH, 1, _buffer, _buffer_start,
                 NewOp("read", <<PROBE_LENGTH, 0>>))
    /\ ops' = ops + 1
    /\ log' = NoLog
    /\ slept' = 0
    /\ resp' = NoResponse
    /\ gx' = "reading"
    /\ UNCHANGED <<server, resLen, buffer_size, _size, _buffer, _buffer_start,
                   _metadata_cache>>
    /\ UNCHANGED <<magic, password, disp, closes, probe>>
    /\ UNCHANGED extract_vars

\* the exception of RemoteStream(url) or of stream.read(8) leaves
\* get_extractor, which has no handler
GxPropagate ==
    /\ \/ gx = "open" /\ pc = "failed"
       \/ gx = "reading" /\ pc = "idle" /\ op.status = "raised"
    /\ gx' = "raised"
    /\ disp' = [disp EXCEPT !.exc = op.exc]
    /\ StreamUnchanged
    /\ UNCHANGED <<magic, password, closes, probe>>
    /\ UNCHANGED extract_vars

\* magic_bytes = (what read returned); stream.seek(0)
GxReset ==
    /\ gx = "reading"
    /\ pc = "idle"
    /\ op.status = "returned"
    /\ disp' = [disp EXCEPT !.magic_bytes = Content(op.ret)]
    /\ pos' = SeekTarget(pos, size, 0, SEEK_SET)
    /\ op' = [NewOp("seek", <<0, SEEK_SET>>) EXCEPT
                 !.status = "returned", !.result = pos']
    /\ ops' = ops + 1
    /\ gx' = "scan"
    /\ UNCHANGED <<server, resLen, buffer_size, _size, _buffer, _buffer_start,
                   _metadata_cache, pc, req_size, fetch_size, attempt, depth,
                   log, slept, resp>>
    /\ UNCHANGED <<magic, password, closes, probe>>
    /\ UNCHANGED extract_vars

\* the loop over SIGNATURES.items() from entry i on: what ends it
RECURSIVE Scan(_, _)
Scan(magic_bytes, i) ==
    IF i > Len(SIGNATURES) THEN [outcome |-> "None", mode |-> ""]
    ELSE IF StartsWith(magic_bytes, SIGNATURES[i].sig)
    THEN LET mode == SIGNATURES[i].mode
         IN  IF mode = "zip" THEN [outcome |-> "ZipArchiveEngine", mode |-> mode]
             ELSE IF mode \in {"tar", "rar", "7z"}
             THEN [outcome |-> "NotImplementedError", mode |-> mode]
             ELSE Scan(magic_bytes, i + 1)
    ELSE [outcome |-> "ValueError", mode |-> ""]

\* the message of the ValueError
UnknownFormatMessage(magic_bytes) ==
    "Unknown File Format with signature: " \o HexUpper(magic_bytes)

\* password=(password if password else None)
PasswordArg(pw) == IF pw = PwNone \/ pw = << >> THEN PwNone ELSE pw

\* the scan of the signature table, up to the call of the engine's
\* constructor, a raise or the return of None
GxScan ==
    /\ gx = "scan"
    /\ LET r == Scan(disp.magic_bytes, 1)
       IN  CASE r.outcome = "ZipArchiveEngine" ->
                  /\ gx' = "construct"
                  /\ disp' = [disp EXCEPT !.scanned = TRUE, !.mode = r.mode,
                                           !.engine_pos = pos,
                                           !.engine_pw = PasswordArg(password)]
             [] r.outcome = "NotImplementedError" ->
                  /\ gx' = "raised"
                  /\ disp' = [disp EXCEPT !.scanned = TRUE, !.mode = r.mode,
                                           !.exc = r.outcome]
             [] r.outcome = "ValueError" ->
                  /\ gx' = "raised"
                  /\ disp' = [disp EXCEPT
                                !.scanned = TRUE,
                                !.exc = r.outcome,
                                !.msg = UnknownFormatMessage(disp.magic_bytes)]
             [] r.outcome = "None" ->
                  /\ gx' = "returned"
                  /\ disp' = [disp EXCEPT !.scanned = TRUE]
    /\ StreamUnchanged
    /\ UNCHANGED <<magic, password, closes, probe>>
    /\ UNCHANGED extract_vars

\* ZipArchiveEngine.__init__: self.password
EnginePassword(pw) == IF pw = PwNone \/ pw = << >> THEN PwNone ELSE Utf8(pw)

\* ZipArchiveEngine(stream, password): zipfile.ZipFile(self.stream) accepts
\* the archive or raises BadZipFile, which leaves get_extractor
GxConstruct ==
    /\ gx = "construct"
    /\ \E ok \in BOOLEAN :
        IF ok
        THEN /\ gx' = "returned"
             /\ disp' = [disp EXCEPT !.engine = "ZipArchiveEngine",
                                      !.engine_pw = EnginePassword(@)]
        ELSE /\ gx' = "raised"
             /\ disp' = [disp EXCEPT !.exc = "BadZipFile"]
    /\ StreamUnchanged
    /\ UNCHANGED <<magic, password, closes, probe>>
    /\ UNCHANGED extract_vars

\* the parameters after self of extract_to_disk, per engine class: the one
\* get_extractor constructs (ArchiveEngine.py), and those of ZipArchive.py,
\* SevenZipArchive.py, RarArchive.py and TarArchive.py (which inherits the
\* method of ArchiveEngineProtocol)
ExtractToDiskParams(cls) ==
    LET filename == [name |-> "filename", has_default |-> FALSE]
        target_path == [name |-> "target_path", has_default |-> FALSE]
        progress_callback == [name |-> "progress_callback", has_default |-> TRUE]
    IN  CASE cls = "ZipArchiveEngine" -> <<filename, target_path>>
          [] cls = "ZipArchive.ZipArchiveEngine" ->
                 <<filename, target_path, progress_callback>>
          [] cls = "SevenZipArchiveEngine" ->
                 <<filename, target_path, progress_callback>>
          [] cls = "RarArchiveEngine" -> <<filename, target_path>>
          [] cls = "TarArchiveEngine" ->
                 <<filename, target_path, progress_callback>>

\* Python binds a call with npos positional arguments and the keyword
\* arguments kws to params, or raises TypeError
Binds(params, npos, kws) ==
    /\ npos <= Len(params)
    /\ kws \subseteq {params[i].name : i \in (npos + 1)..Len(params)}
    /\ \A i \in (npos + 1)..Len(params) :
          params[i].name \in kws \/ params[i].has_default

\* the caller of get_extractor (extract of main.py):
\* extractor.extract_to_disk(file, target, progress_callback=progress_callback)
CallExtractToDisk ==
    /\ gx = "returned"
    /\ pc = "idle"
    /\ disp.engine # ""
    /\ IF Binds(ExtractToDiskParams(disp.engine), 2, {"progress_callback"})
       THEN /\ gx' = "extracting"
            /\ disp' = [disp EXCEPT !.call = "extract_to_disk"]
       ELSE /\ gx' = "raised"
            /\ disp' = [disp EXCEPT !.call = "extract_to_disk",
                                     !.exc = "TypeError"]
    /\ StreamUnchanged
    /\ UNCHANGED <<magic, password, closes, probe>>
    /\ UNCHANGED extract_vars

\* close(): self.client.close(); the stream is not used afterwards
Close ==
    /\ pc = "idle"
    /\ gx \in {"off", "returned"}
    /\ op' = [NewOp("close", <<0, 0>>) EXCEPT !.status = "returned"]
    /\ pc' = "closed"
    /\ closes' = closes + 1
    /\ log' = NoLog
    /\ slept' = 0
    /\ resp' = NoResponse
    /\ UNCHANGED <<server, resLen, buffer_size, pos, _size, _buffer,
                   _buffer_start, _metadata_cache, req_size, fetch_size,
                   attempt, depth, ops>>
    /\ UNCHANGED <<magic, password, gx, disp, probe>>
    /\ UNCHANGED extract_vars

\* ------------------------------------------------------ specification
Next ==
    \/ Probe
    \/ PrefetchMetadata
    \/ Seek
    \/ Tell
    \/ Read
    \/ FetchAttempt
    \/ Close
    \/ GxSeek
    \/ GxRead
    \/ GxPropagate
    \/ GxReset
    \/ GxScan
    \/ GxConstruct
    \/ CallExtractToDisk

Spec == Init /\ [][Next]_vars

\* a stream constructed by its user and used for a session of short reads
ShortSeek == SeekCall(ShortSeekArgs, ShortSessionOps)
ShortRead == ReadCall(ShortReadSizes, ShortSessionOps)

InitDirect == Init /\ gx = "off"

NextShort ==
    \/ Probe
    \/ PrefetchMetadata
    \/ ShortSeek
    \/ ShortRead
    \/ FetchAttempt
    \/ Close

SpecShortReads == InitDirect /\ [][NextShort]_vars

\* a stream constructed by its user and read in requests of about the
\* large-request threshold
WindowSeek == SeekCall(WindowSeekArgs, MaxOps)
WindowRead == ReadCall(WindowReadSizes, MaxOps)

NextWindows ==
    \/ Probe
    \/ PrefetchMetadata
    \/ WindowSeek
    \/ WindowRead
    \/ FetchAttempt
    \/ Close

SpecWindows == InitDirect /\ [][NextWindows]_vars

\* ----------------------------------------------------- extract_to_disk
\* the stream is not touched by the steps below: the decoder library reads
\* the archive through it and is described by what it hands to the engine
StreamAndDispatchUnchanged ==
    /\ StreamUnchanged
    /\ UNCHANGED <<magic, password, gx, disp, closes, probe, consumers>>

\* what the decoder makes of member m with the password pw of the engine:
\* its bytes ("ok"), a refusal for want of a password, a refusal of the
\* password when the format lets the decoder test it, or bytes that fail
\* the integrity check at the end of the member ("garbage").  ZIP tests one
\* byte of the password, RAR a check value when the archive has one, 7z
\* nothing
Decoding(cls, m, pw) ==
    IF m.encrypted /\ pw = PwNone THEN {"password_required"}
    ELSE IF m.encrypted /\ pw # ArchivePassword
    THEN IF cls = "SevenZipArchiveEngine" THEN {"garbage"}
         ELSE {"bad_password", "garbage"}
    ELSE IF m.damaged THEN {"garbage"}
    ELSE {"ok"}

\* the exception that leaves extract_to_disk of class cls for each refusal
\* of the decoder: the handlers of the method re-raise what they catch
LibraryError(cls, what) ==
    IF cls \in {"ZipArchiveEngine", "ZipArchive.ZipArchiveEngine"}
    THEN CASE what = "password_required" ->
                [type |-> "RuntimeError", text |-> "encrypted"]
           [] what = "bad_password" ->
                [type |-> "RuntimeError", text |-> "bad password"]
           [] what = "garbage" -> [type |-> "BadZipFile", text |-> ""]
    ELSE IF cls = "RarArchiveEngine"
    THEN CASE what = "password_required" ->
                [type |-> "PasswordRequired", text |-> ""]
           [] what = "bad_password" ->
                [type |-> "RarWrongPassword", text |-> ""]
           [] what = "garbage" -> [type |-> "BadRarFile", text |-> ""]
    ELSE CASE what = "password_required" ->
                [type |-> "PasswordRequired", text |-> ""]
           [] what = "bad_password" -> [type |-> "CrcError", text |-> ""]
           [] what = "garbage" -> [type |-> "CrcError", text |-> ""]

\* the constructors: self.password = password.encode("utf-8") if password
\* else None; the decoder of a new archive object is at its start
EngineOf(cls, pw) ==
    [cls |-> cls, password |-> EnginePassword(pw),
     decoder |-> IF cls = "SevenZipArchiveEngine" THEN "start" ELSE ""]

\* an engine constructed by its caller on an open stream
InitEngine ==
    /\ server = "ranges" /\ resLen = 1 * MiB /\ magic = ZipMagic
    /\ buffer_size = DEFAULT_FETCH_SIZE
    /\ password = PwNone
    /\ gx = "engine"
    /\ disp = NoDispatch /\ closes = 0 /\ probe = NoProbe
    /\ pos = 0 /\ _size = resLen /\ _buffer = EmptyBytes /\ _buffer_start = 0
    /\ _metadata_cache = << >>
    /\ pc = "idle"
    /\ req_size = 0 /\ fetch_size = 0 /\ attempt = 0 /\ depth = 0
    /\ op = NoOp("__init__") /\ log = NoLog /\ slept = 0 /\ resp = NoResponse
    /\ ops = 0
    /\ \E cls \in EngineClasses, pw \in EnginePasswords :
          engine = EngineOf(cls, pw)
    /\ xcall = NoCall
    /\ disk = NoDisk
    /\ progress = << >>
    /\ consumers = NoConsumers

\* faulty variant of ResetDecoder: extract_to_disk without archive.reset()
ResetDecoder_Skipped(decoder) == decoder

\* self.archive.reset()
ResetDecoder(decoder) == "start"

\* faulty variant of OpenTarget: the target is not opened before the copy
OpenTarget_NotOpened(d, target) == d

\* open(target_path, "wb"): the file exists and is empty
OpenTarget(d, target) ==
    [d EXCEPT ![target] = [exists |-> TRUE, member |-> "", len |-> 0,
                           sound |-> TRUE]]

\* file.write(chunk) of n bytes decoded from member m
WriteTarget(d, target, m, n, sound) ==
    [d EXCEPT ![target] =
        [exists |-> TRUE,
         member |-> IF n > 0 THEN m.name ELSE @.member,
         len |-> @.len + n,
         sound |-> @.sound /\ sound]]

\* "if progress_callback: progress_callback(n)"
Callback(cb, n) == IF cb THEN Append(progress, n) ELSE progress

\* no call of extract_to_disk is running
NoCallRunning == xcall.status \in {"none", "returned", "raised"}

\* get_files(): lists the members; py7zr may leave its decoder away from
\* the start
GetFiles ==
    /\ gx = "engine"
    /\ NoCallRunning
    /\ engine' = [engine EXCEPT
                    !.decoder = IF engine.cls = "SevenZipArchiveEngine"
                                THEN "used" ELSE @]
    /\ UNCHANGED <<xcall, disk, progress>>
    /\ StreamAndDispatchUnchanged

\* a call extract_to_disk(filename, target_path[, progress_callback=cb]) up
\* to the first read of the copy loop (ZIP, RAR) or the first block py7zr
\* writes (7z), or to the exception that ends it before
ExtractToDisk ==
    /\ gx = "engine"
    /\ NoCallRunning
    /\ xcall.n < MaxCalls
    /\ \E m \in Members, target \in Targets, cb \in BOOLEAN :
        LET call == [NoCall EXCEPT !.n = xcall.n + 1, !.member = m,
                                   !.target = target, !.cb = cb]
            kws == IF cb THEN {"progress_callback"} ELSE {}
        IN
        /\ progress' = << >>
        /\ IF ~Binds(ExtractToDiskParams(engine.cls), 2, kws)
           THEN /\ xcall' = [call EXCEPT !.status = "raised",
                                          !.exc = [type |-> "TypeError",
                                                   text |-> ""]]
                /\ UNCHANGED <<engine, disk>>
           ELSE IF engine.cls = "SevenZipArchiveEngine"
           THEN \* reset(), then extract(targets=[filename], factory=...):
                \* py7zr asks the factory for a writer, which opens the target
                LET decoder == ResetDecoder(engine.decoder)
                IN  \E how \in Decoding(engine.cls, m, engine.password) :
                      IF decoder # "start"
                      THEN \* a decoder left where the last call ended
                           \* finds no member to extract
                           /\ engine' = [engine EXCEPT !.decoder = "used"]
                           /\ disk' = disk
                           /\ xcall' = [call EXCEPT !.status = "returned"]
                      ELSE IF how = "password_required"
                      THEN /\ engine' = [engine EXCEPT !.decoder = "used"]
                           /\ disk' = OpenTarget(disk, target)
                           /\ xcall' = [call EXCEPT
                                          !.status = "raised",
                                          !.opened = TRUE,
                                          !.exc = LibraryError(engine.cls, how)]
                      ELSE /\ engine' = [engine EXCEPT !.decoder = "used"]
                           /\ disk' = OpenTarget(disk, target)
                           /\ xcall' = [call EXCEPT !.status = "running",
                                                     !.phase = "write",
                                                     !.opened = TRUE,
                                                     !.source = how]
           ELSE \* archive.open(filename) and then open(target_path, "wb")
                \E how \in Decoding(engine.cls, m, engine.password) :
                  IF how \in {"password_required", "bad_password"}
                  THEN /\ xcall' = [call EXCEPT
                                      !.status = "raised",
                                      !.exc = LibraryError(engine.cls, how)]
                       /\ UNCHANGED <<engine, disk>>
                  ELSE /\ disk' = OpenTarget(disk, target)
                       /\ xcall' = [call EXCEPT !.status = "running",
                                                 !.phase = "read",
                                                 !.opened = TRUE,
                                                 !.source = how]
                       /\ UNCHANGED engine
    /\ StreamAndDispatchUnchanged

\* "while chunk := source.read(chunk_size)": the next chunk, the end of the
\* loop when it is empty, or the decoder's integrity error when it reaches
\* the end of a member whose bytes are not sound
ReadChunk ==
    /\ gx = "engine"
    /\ xcall.status = "running" /\ xcall.phase = "read"
    /\ LET remaining == xcall.member.len - xcall.read
           chunk == Min(CHUNK_SIZE, remaining)
       IN  IF xcall.source = "garbage" /\ remaining <= CHUNK_SIZE
           THEN xcall' = [xcall EXCEPT
                            !.status = "raised", !.phase = "",
                            !.exc = LibraryError(engine.cls, "garbage")]
           ELSE IF chunk = 0
           THEN xcall' = [xcall EXCEPT !.status = "returned", !.phase = ""]
           ELSE xcall' = [xcall EXCEPT !.read = @ + chunk, !.pending = chunk,
                                       !.phase = "write"]
    /\ UNCHANGED <<engine, disk, progress>>
    /\ StreamAndDispatchUnchanged

\* target_file.write(chunk), then the progress callback with len(chunk)
WriteChunk ==
    /\ gx = "engine"
    /\ xcall.status = "running" /\ xcall.phase = "write"
    /\ engine.cls # "SevenZipArchiveEngine"
    /\ disk' = WriteTarget(disk, xcall.target, xcall.member, xcall.pending,
                           xcall.source = "ok")
    /\ progress' = Callback(xcall.cb, xcall.pending)
    /\ xcall' = [xcall EXCEPT !.writes = Append(@, xcall.pending),
                              !.pending = 0, !.phase = "read"]
    /\ UNCHANGED engine
    /\ StreamAndDispatchUnchanged

\* py7zr calls SevenZipWriter.write(data) with the next block it decoded:
\* written = self._file.write(data), then the progress callback with written.
\* An empty member may get one write of b""
SevenZipWrite ==
    /\ gx = "engine"
    /\ xcall.status = "running" /\ xcall.phase = "write"
    /\ engine.cls = "SevenZipArchiveEngine"
    /\ LET remaining == xcall.member.len - xcall.read
       IN  /\ remaining > 0 \/ xcall.writes = << >>
           /\ \E block \in SevenZipBlocks :
                LET written == Min(block, remaining)
                IN  /\ disk' = WriteTarget(disk, xcall.target, xcall.member,
                                           written, xcall.source = "ok")
                    /\ progress' = Callback(xcall.cb, written)
                    /\ xcall' = [xcall EXCEPT !.read = @ + written,
                                              !.writes = Append(@, written)]
    /\ UNCHANGED engine
    /\ StreamAndDispatchUnchanged

\* archive.extract(...) ends: it returns, or raises the integrity error of
\* a member whose bytes are not sound
SevenZipDone ==
    /\ gx = "engine"
    /\ xcall.status = "running" /\ xcall.phase = "write"
    /\ engine.cls = "SevenZipArchiveEngine"
    /\ xcall.read = xcall.member.len
    /\ xcall' = IF xcall.source = "garbage"
                THEN [xcall EXCEPT !.status = "raised", !.phase = "",
                                   !.exc = LibraryError(engine.cls, "garbage")]
                ELSE [xcall EXCEPT !.status = "returned", !.phase = ""]
    /\ UNCHANGED <<engine, disk, progress>>
    /\ StreamAndDispatchUnchanged

NextExtract ==
    \/ GetFiles
    \/ ExtractToDisk
    \/ ReadChunk
    \/ WriteChunk
    \/ SevenZipWrite
    \/ SevenZipDone

SpecExtract == InitEngine /\ [][NextExtract]_vars

\* ------------------------------------------------------------- claims
\* what the claims speak of, read off the observers
IsRead == op.name = "read"
\* the latest answer of a _fetch was a 429, a transient failure (no answer,
\* or a status raise_for_status rejects), a 2xx
Got429 == resp.status = 429
GotTransient == resp.status = 0 \/ (resp.status >= 300 /\ resp.status # 429)
Got2xx == resp.status >= 200 /\ resp.status < 300
\* the read never returned although every _fetch it called stored an answer
NeverServed ==
    op.status = "raised" /\ op.exc = "RecursionError" /\ op.unpopulated = 0
\* metadata entry i holds the whole range [pos0, pos0 + n)
Contained(i, n) ==
    /\ _metadata_cache[i].start <= op.pos0
    /\ op.pos0 + n <= _metadata_cache[i].end + 1

(* C1: on a server that answers range requests correctly, a read of length *)
(* n at an offset with 0 <= offset and offset + n <= size returns exactly  *)
(* resource[offset : offset+n], whatever calls came before.                *)
C1_SeekThenReadYieldsSlice ==
    (IsRead /\ server = "ranges" /\ op.pos0 >= 0 /\ op.arg[1] >= 0
        /\ op.pos0 + op.arg[1] <= size)
    => /\ op.status = "returned" => op.ret = Bytes(op.pos0, op.arg[1])
       /\ ~NeverServed

(* C2: a read that misses the metadata regions and the buffer calls _fetch *)
(* exactly once and re-enters read at most once, so it ends by returning   *)
(* bytes or raising what _fetch raised.                                     *)
C2_OneFetchOneReentry ==
    IsRead => op.nfetch <= 1 /\ op.exc # "RecursionError"

(* C3: 429 answers cost no attempt: _fetch gives up only after 5 transient *)
(* failures, and never returns without having stored a buffer.             *)
C3_RateLimitCostsNoAttempt ==
    IsRead => /\ op.exc = "HTTPError" => log.nerr = MAX_ATTEMPTS
              /\ op.unpopulated = 0

(* C4: 5 consecutive transient failures of one _fetch make read raise the  *)
(* transport error after exactly 5 requests; 4 failures followed by a      *)
(* success make read return the requested bytes.                           *)
C4_FiveFailuresRaiseFourRecover ==
    IsRead =>
       /\ log.nerr = MAX_ATTEMPTS
          => op.status = "raised" /\ op.exc = "HTTPError" /\ log.nreq = MAX_ATTEMPTS
             /\ pc = "idle"
       /\ (Got2xx /\ resp.len > 0 /\ log.nerr = MAX_ATTEMPTS - 1
              /\ log.nreq = MAX_ATTEMPTS /\ server = "ranges" /\ op.pos0 >= 0)
          => op.status = "returned" /\ op.ret = Bytes(op.pos0, op.size)

(* C5: after a 429 answer the stream has slept at least the Retry-After    *)
(* value (the default 3 when the header is absent, never less than 1) and  *)
(* goes on to send a request with the same Range header.                   *)
C5_WaitsRetryAfterThenReissues ==
    (IsRead /\ Got429) =>
       /\ op.status = "running" /\ pc = "fetch"
       /\ slept >= 1
       /\ resp.retry_after = NoHeader => slept >= DEFAULT_RETRY_AFTER
       /\ IsDecimal(resp.retry_after) => slept >= ParseInt(resp.retry_after)
       /\ FetchRange(pos, fetch_size) = <<log.lo, log.hi>>

(* C6: read at position >= size returns b"" with no request and leaves the *)
(* position; read at position < size with position + n > size or n = -1    *)
(* returns exactly size - position bytes.                                   *)
C6_EofEmptyAndClampToSize ==
    IsRead =>
       /\ op.pos0 >= size
          => op.status = "returned" /\ op.ret = EmptyBytes /\ op.nfetch = 0
             /\ pos = op.pos0
       /\ (op.pos0 < size /\ (op.arg[1] = 0 - 1 \/ op.pos0 + op.arg[1] > size))
          => /\ op.status = "returned" => op.ret.len = size - op.pos0
             /\ ~NeverServed

(* C7: a read of n >= 1 (clamped) bytes is served from a metadata region,   *)
(* with no request, exactly when [position, position+n) lies inside that    *)
(* region's [start, end+1); a partial overlap is never served from it.      *)
C7_MetadataServesIffContained ==
    (IsRead /\ op.size >= 1) =>
       /\ op.served \in {"initial", "final"}
          <=> \E i \in 1..Len(_metadata_cache) : Contained(i, op.size)
       /\ \A i \in 1..Len(_metadata_cache) :
            op.served = _metadata_cache[i].label
            => /\ Contained(i, op.size)
               /\ op.nfetch = 0
               /\ op.status = "returned"
               /\ op.ret = Slice(_metadata_cache[i].data,
                                 op.pos0 - _metadata_cache[i].start,
                                 op.pos0 - _metadata_cache[i].start + op.size)
\* a read served from the tail region
C7_Witness ==
    IsRead /\ op.served = "final" /\ op.size >= 1 /\ op.pos0 > 0 /\ op.ret.len = op.size

(* C8: a read that starts inside the buffer region and ends beyond it, in   *)
(* bytes no region holds, calls _fetch exactly once and returns             *)
(* resource[position : position+n].                                         *)
C8_BoundaryReadFetchesOnce ==
    (IsRead /\ server = "ranges" /\ op.size >= 1
        /\ op.buf0.start >= 0 /\ op.buf0.start <= op.pos0
        /\ op.pos0 < op.buf0.start + op.buf0.len
        /\ op.pos0 + op.size > op.buf0.start + op.buf0.len
        /\ \A i \in 1..Len(_metadata_cache) : ~Contained(i, op.size))
    => /\ op.nfetch = 1
       /\ op.status = "returned" => op.ret = Bytes(op.pos0, op.size)

(* C9: a 2xx answer with an empty body to a non-empty range makes _fetch    *)
(* raise EOFError on that attempt: no sleep, no further request, and the    *)
(* buffer region as it was.                                                 *)
C9_EmptyBodyRaisesAtOnce ==
    [][(pc = "fetch" /\ resp'.status >= 200 /\ resp'.status < 300
           /\ resp'.len = 0 /\ log'.hi >= log'.lo)
       => /\ op'.status = "raised" /\ op'.exc = "EOFError"
          /\ pc' = "idle"
          /\ slept' = 0
          /\ _buffer' = _buffer /\ _buffer_start' = _buffer_start
          /\ pos' = pos]_vars
\* EOFError raised while the buffer holds an earlier answer
C9_Witness ==
    IsRead /\ op.exc = "EOFError" /\ Got2xx /\ resp.len = 0 /\ _buffer.len > 0

(* C10: seek sets the position to offset, position + offset or size +       *)
(* offset and returns it, tell returns the position; neither sends a        *)
(* request nor changes buffer, metadata regions or size.                    *)
C10_SeekTellArithmeticOnly ==
    [][(ops' # ops /\ op'.name \in {"seek", "tell"})
       => /\ op'.status = "returned" /\ op'.result = pos'
          /\ op'.name = "tell" => pos' = pos
          /\ (op'.name = "seek" /\ op'.arg[2] = SEEK_SET) => pos' = op'.arg[1]
          /\ (op'.name = "seek" /\ op'.arg[2] = SEEK_CUR) => pos' = pos + op'.arg[1]
          /\ (op'.name = "seek" /\ op'.arg[2] = SEEK_END) => pos' = size + op'.arg[1]
          /\ pc' = "idle" /\ op'.nfetch = 0
          /\ _buffer' = _buffer /\ _buffer_start' = _buffer_start
          /\ _metadata_cache' = _metadata_cache /\ _size' = _size]_vars
\* a seek from the end while the buffer holds a fetched region
C10_Witness ==
    op.name = "seek" /\ op.arg[2] = SEEK_END /\ op.arg[1] < 0 /\ _buffer.len > 0
       /\ pos = size + op.arg[1]

\* ------------------------------------------------ claims on get_extractor
\* the first table entry whose signature is a prefix of the probed bytes
Matches(i) == StartsWith(disp.magic_bytes, SIGNATURES[i].sig)
NoMatch == \A i \in 1..Len(SIGNATURES) : ~Matches(i)
FirstMatch == CHOOSE i \in 1..Len(SIGNATURES) :
                 Matches(i) /\ \A j \in 1..(i - 1) : ~Matches(j)
\* the engine holds the password given to get_extractor
BoundToPassword ==
    /\ password = PwNone => disp.engine_pw = PwNone
    /\ (password # PwNone /\ password # << >>) => disp.engine_pw = Utf8(password)

(* C11: for probed bytes 50 4B 03 04 get_extractor selects a ZIP engine,    *)
(* for 37 7A BC AF 27 1C a 7z engine and for 52 61 72 21 1A 07 00 a RAR     *)
(* engine, each constructed on the opened stream with the given password.   *)
C11_SignatureSelectsEngine ==
    disp.scanned =>
       /\ StartsWith(disp.magic_bytes, <<80, 75, 3, 4>>)
          => /\ disp.mode = "zip" /\ disp.engine_pos # None
             /\ gx = "returned" => disp.engine = "ZipArchiveEngine" /\ BoundToPassword
       /\ StartsWith(disp.magic_bytes, <<55, 122, 188, 175, 39, 28>>)
          => /\ disp.mode = "7z" /\ disp.engine_pos # None
             /\ gx = "returned" => disp.engine = "SevenZipArchiveEngine" /\ BoundToPassword
       /\ StartsWith(disp.magic_bytes, <<82, 97, 114, 33, 26, 7, 0>>)
          => /\ disp.mode = "rar" /\ disp.engine_pos # None
             /\ gx = "returned" => disp.engine = "RarArchiveEngine" /\ BoundToPassword

(* C12: get_extractor raises the unknown-format ValueError exactly when no  *)
(* signature of the table is a prefix of the probed bytes; otherwise the    *)
(* first matching entry, wherever it stands in the table, gives the mode;   *)
(* the message holds the uppercase hex of the probed bytes.                 *)
C12_UnknownIffNoPrefixMatches ==
    disp.scanned =>
       /\ (disp.exc = "ValueError") <=> NoMatch
       /\ ~NoMatch => disp.mode = SIGNATURES[FirstMatch].mode
       /\ disp.magic_bytes = <<222, 173, 190, 239, 0, 0, 0, 0>>
          => disp.msg = "Unknown File Format with signature: DEADBEEF00000000"

(* C13: when the probed bytes match a signature whose format has no engine  *)
(* wired into get_extractor (tar, rar, 7z), get_extractor raises            *)
(* NotImplementedError and never the unknown-format ValueError.             *)
C13_UnwiredFormatNotImplemented ==
    (disp.scanned /\ ~NoMatch
        /\ SIGNATURES[FirstMatch].mode \in {"tar", "rar", "7z"})
    => gx = "raised" /\ disp.exc = "NotImplementedError"

(* C14: get_extractor probes exactly the first 8 bytes of the resource      *)
(* (all of it when it is shorter), and the stream position is 0 when the    *)
(* signature scan starts and when the engine constructor gets the stream.   *)
C14_ProbesEightBytesAndRestores ==
    /\ disp.scanned
       => disp.magic_bytes = SubSeq(magic, 1, Min(PROBE_LENGTH, resLen))
    /\ gx = "scan" => pos = 0
    /\ disp.engine_pos # None => disp.engine_pos = 0

\* -------------------------------------------- claims on construction
\* the construction of the stream has returned
Constructed == pc \notin {"probe", "prefetch", "failed"}
\* the region of `label` is the empty one
EmptyRegion(label) ==
    [label |-> label, data |-> EmptyBytes, start |-> 0, end |-> 0 - 1]
\* the byte range the prefetch of region i asked for
PrefetchedRange(i) == PrefetchRange(IF i = 1 THEN "initial" ELSE "final")

(* C15: when the probe is answered with a status other than 200 and 206,    *)
(* construction fails with ConnectionError and no prefetch request is made: *)
(* no region is recorded and the size is not set.                            *)
C15_ProbeStatusRefused ==
    (probe.status >= 100 /\ probe.status \notin {200, 206})
    => /\ pc = "failed"
       /\ op.name = "__init__" /\ op.status = "raised"
       /\ op.exc = "ConnectionError"
       /\ _metadata_cache = << >> /\ resp = NoResponse
       /\ _size = None
\* a 404 answer to the probe
C15_Witness ==
    probe.status = 404 /\ pc = "failed" /\ op.exc = "ConnectionError"

(* C16: once constructed, the size is the total of the probe's              *)
(* Content-Range when the header was present, also when Content-Length was  *)
(* present and different; else the probe's Content-Length; else 0.          *)
C16_SizeFromContentRangeFirst ==
    Constructed =>
       /\ probe.content_range >= 0 => size = probe.content_range
       /\ (probe.content_range = None /\ probe.content_length >= 0)
          => size = probe.content_length
       /\ (probe.content_range = None /\ probe.content_length = None) => size = 0
\* Content-Range and a different Content-Length on the same answer
C16_Witness ==
    /\ Constructed
    /\ probe.content_range > 0 /\ probe.content_length > 0
    /\ probe.content_range # probe.content_length
    /\ size = probe.content_range

(* C17: a prefetch request that fails (no answer, or a non-2xx status)      *)
(* records the empty region (no bytes, start 0, end -1) and construction    *)
(* goes on; no read is served from a region without bytes; and a read       *)
(* inside the range of a failed prefetch that returns, returns the bytes    *)
(* of the resource, through the buffer.                                      *)
C17_FailedPrefetchRecordedEmpty ==
    [][/\ (pc = "prefetch" /\ (resp'.status = 0 \/ IsErrorStatus(resp'.status)))
          => /\ Len(_metadata_cache') = Len(_metadata_cache) + 1
             /\ \E label \in {"initial", "final"} :
                  _metadata_cache'[Len(_metadata_cache')] = EmptyRegion(label)
             /\ pc' \in {"prefetch", "idle"}
             /\ op'.status # "raised"
       /\ (op'.name = "read")
          => \A i \in 1..Len(_metadata_cache') :
               /\ op'.served = _metadata_cache'[i].label
                  => _metadata_cache'[i].data.len > 0
               /\ (/\ _metadata_cache'[i] = EmptyRegion(_metadata_cache'[i].label)
                   /\ server = "ranges" /\ op'.size >= 1
                   /\ PrefetchedRange(i)[1] <= op'.pos0
                   /\ op'.pos0 + op'.size - 1 <= PrefetchedRange(i)[2])
                  => /\ op'.status = "returned"
                        => /\ op'.ret = Bytes(op'.pos0, op'.size)
                           /\ op'.served # _metadata_cache'[i].label
                     /\ ~(op'.exc = "RecursionError" /\ op'.unpopulated = 0)]_vars
\* both prefetches failed and a read of the tail range came through a fetch
C17_Witness ==
    /\ IsRead /\ op.status = "returned" /\ op.served = "buffer" /\ op.nfetch = 1
    /\ _metadata_cache[1] = EmptyRegion("initial")
    /\ _metadata_cache[2] = EmptyRegion("final")
    /\ op.pos0 = size - 8 /\ op.ret = Bytes(size - 8, 8)

(* C18: once constructed there are exactly two metadata regions, the head   *)
(* and the tail, and no later step (seek, tell, read, fetch, close) changes *)
(* a region's start, end or bytes, or the size.                             *)
C18_TwoRegionsNeverChange ==
    [][Constructed
       => /\ Len(_metadata_cache) = 2
          /\ _metadata_cache[1].label = "initial"
          /\ _metadata_cache[2].label = "final"
          /\ _metadata_cache' = _metadata_cache
          /\ _size' = _size]_vars
\* a read that fetched and returned, with both regions holding bytes
C18_Witness ==
    /\ IsRead /\ op.status = "returned" /\ op.nfetch >= 1 /\ _buffer.len > 0
    /\ Len(_metadata_cache) = 2
    /\ _metadata_cache[1].data.len > 0 /\ _metadata_cache[2].data.len > 0

(* C19: the client of a stream opened by get_extractor is released exactly  *)
(* once: when get_extractor fails after opening the stream, the stream is   *)
(* closed when the error reaches the caller; when it returns an engine the  *)
(* client is released by the stream's close and by nothing else.            *)
C19_ClientReleasedExactlyOnce ==
    /\ (gx = "raised" /\ pc # "failed" /\ disp.call = "") => closes = 1
    /\ gx \in {"returned", "extracting"} => closes = (IF pc = "closed" THEN 1 ELSE 0)
    /\ closes <= 1

(* C20: the call extract_to_disk(file, target, progress_callback=cb) made   *)
(* by the caller is accepted by the engine get_extractor returned: it does  *)
(* not fail on the call interface.                                          *)
C20_ExtractCallAccepted ==
    disp.call = "extract_to_disk" => gx = "extracting" /\ disp.exc # "TypeError"


\* ------------------------------------------- claims on extract_to_disk
\* the body of extract_to_disk ran: the call was accepted by the method
Ran == xcall.status # "none" /\ xcall.exc.type # "TypeError"
Ended == xcall.status \in {"returned", "raised"}
RECURSIVE Sum(_)
Sum(seq) == IF seq = << >> THEN 0 ELSE Head(seq) + Sum(Tail(seq))
\* the file that holds exactly the content of member m
FileOf(m) ==
    [exists |-> TRUE, member |-> IF m.len > 0 THEN m.name ELSE "",
     len |-> m.len, sound |-> TRUE]
\* what the engine raises for a member whose data are damaged
BadArchive == LibraryError(engine.cls, "garbage")
\* the decoder can decode the member of the call with the engine's password
Readable ==
    /\ ~xcall.member.damaged
    /\ xcall.member.encrypted => engine.password = ArchivePassword

(* C21: during extract_to_disk with a progress callback the callback gets,  *)
(* after each write, the byte count of the chunk written; no chunk is       *)
(* longer than 128 KiB; a chunk is written before the next is read; the     *)
(* arguments of the callback add up to the bytes written to the target.     *)
C21_ProgressPerChunk ==
    (Ran /\ xcall.cb) =>
       /\ progress = xcall.writes
       /\ \A i \in 1..Len(xcall.writes) : xcall.writes[i] <= CHUNK_SIZE
       /\ xcall.pending <= CHUNK_SIZE
       /\ xcall.read = Sum(xcall.writes) + xcall.pending
       /\ IF xcall.opened THEN Sum(progress) = disk[xcall.target].len
          ELSE progress = << >>

(* C22: with every engine, extracting an encrypted member with a wrong      *)
(* password ends in an exception that is neither the one of a damaged       *)
(* archive nor the one of a missing password, and extracting it with no     *)
(* password ends in an exception that is neither of the other two.          *)
C22_PasswordOutcomesDistinct ==
    (Ran /\ Ended /\ xcall.member.encrypted) =>
       /\ engine.password \notin {PwNone, ArchivePassword}
          => /\ xcall.status = "raised"
             /\ xcall.exc # BadArchive
             /\ xcall.exc # LibraryError(engine.cls, "password_required")
       /\ engine.password = PwNone
          => /\ xcall.status = "raised"
             /\ xcall.exc = LibraryError(engine.cls, "password_required")
             /\ xcall.exc # BadArchive
             /\ xcall.exc # LibraryError(engine.cls, "bad_password")

C25_FetchWindowCoversRequest ==
    (pc = "fetch" /\ req_size >= 1 /\ pos < size) => fetch_size >= req_size

(* C26: for a clamped request n below the large-request threshold the       *)
(* window is min(max(n, floor), size - position); for n at the threshold or *)
(* above it is min(large window, size - position).                          *)
C26_FetchWindowSizing ==
    (pc = "fetch" /\ req_size >= 1)
    => fetch_size = IF req_size < LARGE_REQUEST_THRESHOLD
                    THEN Min(Max(req_size, MIN_FETCH_SIZE), size - pos)
                    ELSE Min(buffer_size, size - pos)

(* C27: when the server ignores Range and answers every request with 200    *)
(* and the whole resource, the bytes held in a metadata region and in the   *)
(* buffer are the resource bytes at the region's recorded start, and a read *)
(* returns resource[position : position + n].                               *)
C27_FullBodyAnswersKeepOffsets ==
    (server = "no_ranges" /\ Constructed) =>
       /\ \A i \in 1..Len(_metadata_cache) :
            _metadata_cache[i].data.len > 0
            => _metadata_cache[i].data.src = _metadata_cache[i].start
       /\ _buffer.len > 0 => _buffer.src = _buffer_start
       /\ (IsRead /\ op.status = "returned")
          => op.ret = Bytes(op.pos0, op.size)

\* the header "Range: bytes=lo-hi" of a prefetch or fetch request is well
\* formed for a resource of sz bytes
WellFormedRange(rng, sz) ==
    0 <= rng[1] /\ rng[1] <= rng[2] /\ rng[2] <= sz - 1

(* C28: the Range header of every prefetch and fetch request the stream     *)
(* sends is bytes=<start>-<end> with 0 <= start <= end <= size - 1, for     *)
(* every probed size and every position a seek can set.                     *)
C28_RangeHeadersWellFormed ==
    /\ pc = "prefetch"
       => WellFormedRange(PrefetchRange(IF Len(_metadata_cache) = 0
                                        THEN "initial" ELSE "final"), size)
    /\ pc = "fetch" => WellFormedRange(FetchRange(pos, fetch_size), size)

(* C29: a read that returns moves the position forward by the number of     *)
(* bytes it returns and never beyond the size; only a seek takes the        *)
(* position beyond the size, and a read called there returns b"" without    *)
(* a request or an error.                                                    *)
C29_ReadAdvancesWithinSize ==
    [][/\ (op'.name = "read" /\ op'.status = "returned" /\ op' # op)
          => /\ pos' = op'.pos0 + op'.ret.len
             /\ pos' > size => pos' = op'.pos0
       /\ (pos' > size /\ pos' # pos) => op'.name = "seek"
       /\ (op'.name = "read" /\ op'.pos0 > size)
          => /\ op'.status = "returned" /\ op'.ret = EmptyBytes
             /\ op'.nfetch = 0 /\ pc' = "idle"]_vars
\* a read clamped at the end of the resource left the position at the size
C29_Witness ==
    /\ IsRead /\ op.status = "returned"
    /\ op.ret.len > 0 /\ op.arg[1] > op.ret.len
    /\ pos = size /\ pos = op.pos0 + op.ret.len

(* C30: after the k-th transient failure of a fetch, k = 1..4, the stream   *)
(* has slept 2k seconds and goes on to the next attempt; after the 5th it   *)
(* raises the error without sleeping.                                        *)
C30_LinearBackoffThenRaise ==
    (IsRead /\ GotTransient /\ log.nerr >= 1) =>
       /\ log.nerr < MAX_ATTEMPTS
          => slept = 2 * log.nerr /\ pc = "fetch" /\ op.status = "running"
       /\ log.nerr = MAX_ATTEMPTS
          => slept = 0 /\ op.status = "raised" /\ op.exc = "HTTPError"


\* ------------------------------------- claims on the buffer and failures
(* C31: whatever buffer_size the stream was constructed with and whatever   *)
(* the request, the buffer region never holds more than buffer_size bytes   *)
(* when the server sends no more than the range it was asked for.           *)
C31_BufferWithinBufferSize ==
    (server = "ranges" /\ _buffer_start >= 0) => _buffer.len <= buffer_size

(* C32: when a read ends because its fetch raised (the 5th transient        *)
(* failure, or EOFError), the position, the buffer region and the metadata  *)
(* regions are as they were when the read was called, and the next fetch    *)
(* starts at its first attempt.                                              *)
C32_FailedReadLeavesStateAsBefore ==
    [][/\ (pc = "fetch" /\ op'.status = "raised"
              /\ op'.exc \in {"HTTPError", "EOFError"})
          => /\ pos' = op'.pos0
             /\ _buffer_start' = op'.buf0.start
             /\ _buffer'.len = op'.buf0.len
             /\ _metadata_cache' = _metadata_cache
             /\ pc' = "idle"
       /\ (pc # "fetch" /\ pc' = "fetch") => (attempt' = 0 /\ log' = NoLog)]_vars

(* C33: when the resource is no longer than the prefetch length and both    *)
(* prefetches got the whole of what they asked for, every read of at least  *)
(* one (clamped) byte is served from a metadata region and no read calls    *)
(* _fetch, whatever seeks and reads came before.                            *)
C33_SmallResourceNeverFetches ==
    (/\ IsRead
     /\ size <= METADATA_FETCH_SIZE
     /\ \A i \in 1..2 : /\ _metadata_cache[i].start = 0
                        /\ _metadata_cache[i].data = Bytes(0, size)
                        /\ _metadata_cache[i].data.len > 0)
    => /\ op.nfetch = 0
       /\ (op.size >= 1 => op.served \in {"initial", "final"})


\* ------------------------------------------------- TarArchiveEngine(stream)
\* TarArchive.py: signature -> compression; "" stands for None, which
\* "if not comp" treats alike
TAR_COMPRESSION_TYPES ==
    << [sig |-> <<117, 115, 116, 97, 114, 0, 48, 48>>, comp |-> ""],
       [sig |-> <<117, 115, 116, 97, 114, 32, 32, 0>>, comp |-> ""],
       [sig |-> <<31, 139>>, comp |-> "gz"],
       [sig |-> <<253, 55, 122, 88, 90, 0>>, comp |-> "xz"],
       [sig |-> <<66, 90, 104>>, comp |-> "bz2"],
       [sig |-> <<40, 181, 47, 253>>, comp |-> "zst"] >>

\* the first bytes of the resources the engine is constructed on: one per
\* signature, and one that matches none
TarMagics ==
    {<<117, 115, 116, 97, 114, 0, 48, 48>>,
     <<117, 115, 116, 97, 114, 32, 32, 0>>,
     <<31, 139, 8, 0, 0, 0, 0, 0>>,
     <<253, 55, 122, 88, 90, 0, 0, 4>>,
     <<66, 90, 104, 57, 49, 65, 89, 38>>,
     <<40, 181, 47, 253, 36, 0, 1, 0>>,
     <<222, 173, 190, 239, 0, 0, 0, 0>>}
TarResources ==
    {<<"ranges", 1 * MiB>>, <<"ranges", 130 * MiB>>, <<"no_ranges", 130 * MiB>>}

\* stream = RemoteStream(url) is being constructed: nothing probed, nothing
\* fetched, no call made, no engine, no file
NewStream ==
    /\ buffer_size = DEFAULT_FETCH_SIZE
    /\ disp = NoDispatch
    /\ closes = 0
    /\ probe = NoProbe
    /\ engine = NoEngine
    /\ xcall = NoCall
    /\ disk = NoDisk
    /\ progress = << >>
    /\ pos = 0
    /\ _size = None
    /\ _buffer = EmptyBytes
    /\ _buffer_start = 0
    /\ _metadata_cache = << >>
    /\ pc = "probe"
    /\ req_size = 0
    /\ fetch_size = 0
    /\ attempt = 0
    /\ depth = 0
    /\ op = NoOp("__init__")
    /\ log = NoLog
    /\ slept = 0
    /\ resp = NoResponse
    /\ ops = 0

\* TarArchiveEngine(RemoteStream(url), password) is called
InitTar ==
    /\ gx = "tar_new"
    /\ \E r \in TarResources : server = r[1] /\ resLen = r[2]
    /\ magic \in TarMagics
    /\ password \in Passwords
    /\ consumers = NoConsumers
    /\ NewStream

\* self.stream, self.password; stream.seek(0)
TarSeek ==
    /\ gx = "tar_new"
    /\ pc = "idle"
    /\ disp' = [disp EXCEPT !.engine_pw = EnginePassword(password)]
    /\ pos' = SeekTarget(pos, size, 0, SEEK_SET)
    /\ op' = [NewOp("seek", <<0, SEEK_SET>>) EXCEPT
                 !.status = "returned", !.result = pos']
    /\ ops' = ops + 1
    /\ gx' = "tar_read8"
    /\ UNCHANGED <<server, resLen, buffer_size, _size, _buffer, _buffer_start,
                   _metadata_cache, pc, req_size, fetch_size, attempt, depth,
                   log, slept, resp>>
    /\ UNCHANGED <<magic, password, closes, probe>>
    /\ UNCHANGED extract_vars

\* magic_bytes = stream.read(8), up to its return or to the first request of
\* its _fetch
TarRead ==
    /\ gx = "tar_read8"
    /\ pc = "idle"
    /\ EnterRead(PROBE_LENGTH, 1, _buffer, _buffer_start,
                 NewOp("read", <<PROBE_LENGTH, 0>>))
    /\ ops' = ops + 1
    /\ log' = NoLog
    /\ slept' = 0
    /\ resp' = NoResponse
    /\ gx' = "tar_reading"
    /\ UNCHANGED <<server, resLen, buffer_size, _size, _buffer, _buffer_start,
                   _metadata_cache>>
    /\ UNCHANGED <<magic, password, disp, closes, probe>>
    /\ UNCHANGED extract_vars

\* the exception of stream.read(8) leaves the constructor, which has no
\* handler
TarPropagate ==
    /\ gx = "tar_reading"
    /\ pc = "idle"
    /\ op.status = "raised"
    /\ gx' = "raised"
    /\ disp' = [disp EXCEPT !.exc = op.exc]
    /\ StreamUnchanged
    /\ UNCHANGED <<magic, password, closes, probe>>
    /\ UNCHANGED extract_vars

\* magic_bytes = (what read returned); stream.seek(0)
TarReset ==
    /\ gx = "tar_reading"
    /\ pc = "idle"
    /\ op.status = "returned"
    /\ disp' = [disp EXCEPT !.magic_bytes = Content(op.ret)]
    /\ pos' = SeekTarget(pos, size, 0, SEEK_SET)
    /\ op' = [NewOp("seek", <<0, SEEK_SET>>) EXCEPT
                 !.status = "returned", !.result = pos']
    /\ ops' = ops + 1
    /\ gx' = "tar_scan"
    /\ UNCHANGED <<server, resLen, buffer_size, _size, _buffer, _buffer_start,
                   _metadata_cache, pc, req_size, fetch_size, attempt, depth,
                   log, slept, resp>>
    /\ UNCHANGED <<magic, password, closes, probe>>
    /\ UNCHANGED extract_vars

\* the loop over TAR_COMPRESSION_TYPES.items() from entry i on, mode being
\* what the entries before i have bound ("unbound" for none): the else
\* branch belongs to the if, and no branch leaves the loop
RECURSIVE TarScan(_, _, _)
TarScan(magic_bytes, i, mode) ==
    IF i > Len(TAR_COMPRESSION_TYPES) THEN [outcome |-> "open", mode |-> mode]
    ELSE IF StartsWith(magic_bytes, TAR_COMPRESSION_TYPES[i].sig)
    THEN LET comp == TAR_COMPRESSION_TYPES[i].comp
         IN  TarScan(magic_bytes, i + 1,
                     IF comp = "" THEN "r|" ELSE "r|" \o comp)
    ELSE [outcome |-> "ValueError", mode |-> mode]

\* the loop, and after it self.archive = tarfile.open(fileobj=self.stream,
\* mode=mode), which the library accepts or refuses
TarOpen ==
    /\ gx = "tar_scan"
    /\ LET r == TarScan(disp.magic_bytes, 1, "unbound")
       IN  CASE r.outcome = "ValueError" ->
                  /\ gx' = "raised"
                  /\ disp' = [disp EXCEPT
                                !.scanned = TRUE, !.mode = r.mode,
                                !.exc = r.outcome,
                                !.msg = "Somehow, unknown compression detected"]
             [] r.outcome = "open" /\ r.mode = "unbound" ->
                  /\ gx' = "raised"
                  /\ disp' = [disp EXCEPT !.scanned = TRUE,
                                           !.exc = "UnboundLocalError"]
             [] r.outcome = "open" /\ r.mode # "unbound" ->
                  \E ok \in BOOLEAN :
                      /\ gx' = IF ok THEN "returned" ELSE "raised"
                      /\ disp' = [disp EXCEPT
                                    !.scanned = TRUE, !.mode = r.mode,
                                    !.engine_pos = pos,
                                    !.engine = IF ok THEN "TarArchiveEngine"
                                               ELSE "",
                                    !.exc = IF ok THEN "" ELSE "ReadError"]
    /\ StreamUnchanged
    /\ UNCHANGED <<magic, password, closes, probe>>
    /\ UNCHANGED extract_vars

NextTar ==
    \/ Probe
    \/ PrefetchMetadata
    \/ FetchAttempt
    \/ TarSeek
    \/ TarRead
    \/ TarPropagate
    \/ TarReset
    \/ TarOpen

SpecTar == InitTar /\ [][NextTar]_vars

\* the signatures of TAR_COMPRESSION_TYPES the bytes start with
TarMatches(magic_bytes) ==
    {i \in 1..Len(TAR_COMPRESSION_TYPES) :
        StartsWith(magic_bytes, TAR_COMPRESSION_TYPES[i].sig)}

\* the tarfile mode of a table entry
TarMode(i) ==
    IF TAR_COMPRESSION_TYPES[i].comp = "" THEN "r|"
    ELSE "r|" \o TAR_COMPRESSION_TYPES[i].comp

(* C34: when the first 8 bytes of the stream start with a signature of     *)
(* TAR_COMPRESSION_TYPES, the constructor of TarArchiveEngine does not      *)
(* raise the unknown-compression ValueError, hands tarfile.open the mode of *)
(* that signature and the stream at position 0; the ValueError is raised    *)
(* only when no signature matches.                                          *)
C34_TarModeSelected ==
    (gx \in {"raised", "returned"} /\ disp.scanned)
    => /\ TarMatches(disp.magic_bytes) # {}
          => /\ disp.exc # "ValueError"
             /\ \E i \in TarMatches(disp.magic_bytes) : disp.mode = TarMode(i)
             /\ disp.engine_pos = 0
             /\ pos = 0
       /\ disp.exc = "ValueError" => TarMatches(disp.magic_bytes) = {}


\* ------------------------------------------------ consumers of one stream
\* the offsets and sizes the consumers ask for, and the resources
ShareOffsets == {8, 3 * MiB}
ShareSizes == {8}
ShareResources == {<<"ranges", 130 * MiB>>, <<"no_ranges", 130 * MiB>>}

\* one consumer, or two, hold the stream that is being constructed; each
\* will call seek(o) and then read(n)
InitShared ==
    /\ gx = "shared"
    /\ \E r \in ShareResources : server = r[1] /\ resLen = r[2]
    /\ magic = ZipMagic
    /\ password = PwNone
    /\ \E sharing \in {{1}, {1, 2}} :
          consumers = [c \in ConsumerIds |->
                          IF c \in sharing
                          THEN [NoConsumer EXCEPT !.phase = "start"]
                          ELSE NoConsumer]
    /\ NewStream

\* no call on the stream is running: the consumers interleave call by call
NoCallOnStream ==
    /\ pc = "idle"
    /\ \A c \in ConsumerIds : consumers[c].phase # "reading"

\* consumer c has made a call: every other consumer that has sought and not
\* yet read has been overtaken
Overtaking(c, cs) ==
    [d \in ConsumerIds |->
        IF d # c /\ cs[d].phase = "sought"
        THEN [cs[d] EXCEPT !.disturbed = TRUE]
        ELSE cs[d]]

\* consumer c calls stream.seek(o)
ConsumerSeek(c) ==
    /\ gx = "shared"
    /\ NoCallOnStream
    /\ consumers[c].phase = "start"
    /\ \E o \in ShareOffsets :
        /\ pos' = SeekTarget(pos, size, o, SEEK_SET)
        /\ op' = [NewOp("seek", <<o, SEEK_SET>>) EXCEPT
                     !.status = "returned", !.result = pos']
        /\ consumers' = Overtaking(c,
                            [consumers EXCEPT ![c].phase = "sought",
                                              ![c].o = o])
    /\ ops' = ops + 1
    /\ UNCHANGED <<server, resLen, buffer_size, _size, _buffer, _buffer_start,
                   _metadata_cache, pc, req_size, fetch_size, attempt, depth,
                   log, slept, resp>>
    /\ UNCHANGED <<magic, password, gx, disp, closes, probe>>
    /\ UNCHANGED <<engine, xcall, disk, progress>>

\* consumer c calls stream.read(n): up to its return or to the first request
\* of its _fetch
ConsumerRead(c) ==
    /\ gx = "shared"
    /\ NoCallOnStream
    /\ consumers[c].phase = "sought"
    /\ \E n \in ShareSizes :
        /\ EnterRead(n, 1, _buffer, _buffer_start, NewOp("read", <<n, 0>>))
        /\ consumers' = Overtaking(c,
                            [consumers EXCEPT ![c].phase = "reading",
                                              ![c].n = n])
    /\ ops' = ops + 1
    /\ log' = NoLog
    /\ slept' = 0
    /\ resp' = NoResponse
    /\ UNCHANGED <<server, resLen, buffer_size, _size, _buffer, _buffer_start,
                   _metadata_cache>>
    /\ UNCHANGED <<magic, password, gx, disp, closes, probe>>
    /\ UNCHANGED <<engine, xcall, disk, progress>>

\* the read of consumer c has ended: c holds the bytes it returned, or its
\* exception
ConsumerReceives(c) ==
    /\ gx = "shared"
    /\ pc = "idle"
    /\ consumers[c].phase = "reading"
    /\ consumers' = [consumers EXCEPT ![c].phase = "done",
                                      ![c].status = op.status,
                                      ![c].exc = op.exc,
                                      ![c].got = op.ret]
    /\ StreamUnchanged
    /\ UNCHANGED <<magic, password, gx, disp, closes, probe>>
    /\ UNCHANGED <<engine, xcall, disk, progress>>

NextShared ==
    \/ Probe
    \/ PrefetchMetadata
    \/ FetchAttempt
    \/ \E c \in ConsumerIds : ConsumerSeek(c)
    \/ \E c \in ConsumerIds : ConsumerRead(c)
    \/ \E c \in ConsumerIds : ConsumerReceives(c)

SpecShared == InitShared /\ [][NextShared]_vars

\* resource[o : o+n] for 0 <= o
Expected(o, n) == Bytes(o, Min(o + n, resLen) - o)

\* consumer c was handed bytes other than resource[o : o+n], by a stream on
\* a server that honours Range and that knows the length of the resource
ReceivedOtherBytes(c) ==
    /\ consumers[c].phase = "done"
    /\ consumers[c].status = "returned"
    /\ server = "ranges"
    /\ size = resLen
    /\ consumers[c].got # Expected(consumers[c].o, consumers[c].n)

=============================================================================
